---------------------------- MODULE Spec2Model ----------------------------
(***************************************************************************)
(* Model of the support layer of pyidm/utils.py: the byte-range planners   *)
(* (size_splitter, get_range_list), the segment-size parser (get_seg_size) *)
(* and the log persistence pipeline (log / log_recorder).                  *)
(*                                                                         *)
(* Python strings are sequences of one-character strings, so that          *)
(* formatting (f'{x}-{y}'), splitting and int() are computed the way       *)
(* Python computes them.  A call's outcome is a record: either a returned  *)
(* value or a raised exception.                                            *)
(***************************************************************************)
EXTENDS Integers, Sequences, FiniteSets, TLC

VARIABLES
    \* ---- size_splitter(size, part_size): arguments and outcome
    sp_size, sp_part_size, sp_ret,
    \* ---- get_range_list(file_size): argument, the settings it reads, outcome
    rl_file_size, config_segment_size, config_max_connections, rl_ret,
    \* ---- get_seg_size(seg): argument and outcome
    gs_seg, gs_ret,
    \* ---- process-wide state used by log and log_recorder (module config)
    config_log_level,      \* config.log_level
    config_terminate,      \* config.terminate
    config_log_entry,      \* config.log_entry
    log_recorder_q,        \* config.log_recorder_q, an unbounded FIFO queue
    log_q,                 \* config.log_q (read by the main window)
    \* ---- log_recorder: its locals, its position and the file on disk
    pc,                    \* "idle", "sleep", "count", "drain", "stopped", "crashed"
    buffer,                \* local buffer
    pending,               \* iterations left of  for _ in range(q.qsize())
    file,                  \* content of <sett_folder>/log.txt
    \* ---- history (not program state)
    calls,                 \* number of log() calls made by each producer
    enqueued,              \* every record put on log_recorder_q, in put order
    drained,               \* every record log_recorder got from the queue, in order
    enq_at_terminate,      \* Len(enqueued) when config.terminate was set, else -1
    attempt,               \* the buffer handed to the last f.write
    last_write, prev_write,\* outcome of the last two write attempts
    failures,              \* number of failed write attempts so far
    enq_at_count,          \* Len(enqueued) when the last q.qsize() was taken
    drained_at_count,      \* Len(drained) when the last q.qsize() was taken
    partial_write,         \* some failed write attempt left characters in the file
    \* ---- process-wide settings read by set_curl_options (module config)
    config_proxy,          \* config.proxy
    config_referer_url,    \* config.referer_url
    config_use_cookies,    \* config.use_cookies
    config_username,       \* config.username
    config_password,       \* config.password
    \* ---- get_headers(url, http_headers): argument, position, locals, outcome
    gh_http_headers,       \* the http_headers argument
    cpc,                   \* position of the thread inside get_headers
    curl_opts,             \* the options of the pycurl handle c
    curl_set,              \* names of the options set on c with setopt
    curl_info,             \* what c.getinfo reports: RESPONSE_CODE, EFFECTIVE_URL
    curl_headers,          \* local dict curl_headers, name -> value
    wire,                  \* header lines the transfer has still to deliver
    stderr_lines,          \* trace lines libcurl wrote to stderr
    gh_ret,                \* outcome of the call
    \* ---- history (not program state)
    gh_error,              \* what ended c.perform(): "pending", "none" or a cause
    gh_logged,             \* arguments of the log call made by the except clause
    headers_at_end,        \* curl_headers when c.perform() ended
    changes                \* number of settings changes made by the host

planVars == <<sp_size, sp_part_size, sp_ret,
              rl_file_size, config_segment_size, config_max_connections, rl_ret,
              gs_seg, gs_ret>>

logVars == <<config_log_level, config_terminate, config_log_entry, log_recorder_q,
             log_q, pc, buffer, pending, file>>

histVars == <<calls, enqueued, drained, enq_at_terminate, attempt, last_write,
              prev_write, failures, enq_at_count, drained_at_count, partial_write>>

settingVars == <<config_proxy, config_referer_url, config_use_cookies,
                 config_username, config_password>>

curlVars == <<settingVars, gh_http_headers, cpc, curl_opts, curl_set, curl_info,
              curl_headers,
              wire, stderr_lines, gh_ret, gh_error, gh_logged, headers_at_end,
              changes>>

vars == <<planVars, logVars, histVars, curlVars>>

-----------------------------------------------------------------------------
(* Bounds of the model *)

MaxSize      == 12   \* largest size / file_size enumerated
MaxPart      == 5    \* largest part_size / config.segment_size enumerated
MaxConn      == 4    \* largest config.max_connections enumerated
MinSize      == 2    \* sizes down to -MinSize are enumerated (bad input)
MaxSegLen    == 4    \* longest enumerated descriptor string for get_seg_size
MaxLogCalls  == 2    \* log() calls made in one behaviour
MaxFailures  == 1    \* failed write attempts in one behaviour
MaxSettingChanges == 1   \* settings changes by the host during one request
MaxTraceLines == 1   \* trace lines libcurl emits during one transfer

-----------------------------------------------------------------------------
(* Outcomes of a call *)

Pending     == [kind |-> "pending", exc |-> "", val |-> <<>>]
Return(v)   == [kind |-> "return",  exc |-> "", val |-> v]
Raise(e)    == [kind |-> "raise",   exc |-> e,  val |-> <<>>]

(* Python built-ins used by the planners *)

PyMax(a, b) == IF a >= b THEN a ELSE b
PyMin(a, b) == IF a <= b THEN a ELSE b

\* a // b on Python ints (floor division), b # 0
PyFloorDiv(a, b) == IF b > 0 THEN a \div b ELSE (-a) \div (-b)

\* e1 or e2 on ints: e1 when it is truthy (non-zero), else e2
PyOr(a, b) == IF a # 0 THEN a ELSE b

Digits == <<"0", "1", "2", "3", "4", "5", "6", "7", "8", "9">>
DigitSet == {Digits[i] : i \in 1..Len(Digits)}
DigitVal(c) == (CHOOSE i \in 1..Len(Digits) : Digits[i] = c) - 1

RECURSIVE NatStr(_)
NatStr(n) == IF n < Len(Digits) THEN <<Digits[n + 1]>>
             ELSE NatStr(n \div Len(Digits)) \o <<Digits[(n % Len(Digits)) + 1]>>

\* str(n) / f'{n}' of a Python int
PyStr(n) == IF n < 0 THEN <<"-">> \o NatStr(-n) ELSE NatStr(n)

\* f'{x}-{y}'
FormatRange(x, y) == PyStr(x) \o <<"-">> \o PyStr(y)

-----------------------------------------------------------------------------
(* size_splitter *)

\* the loop without the "last remaining bytes" test of line 399
RECURSIVE size_splitter_loop_noabsorb(_, _, _, _, _, _)
size_splitter_loop_noabsorb(i, parts, x, span, size, result) ==
    IF i >= parts THEN result
    ELSE LET y == x + span - 1
         IN  size_splitter_loop_noabsorb(i + 1, parts, y + 1, span, size,
                                         Append(result, FormatRange(x, y)))

\* for i in range(parts): ... ; size is already size - 1 here
RECURSIVE size_splitter_loop(_, _, _, _, _, _)
size_splitter_loop(i, parts, x, span, size, result) ==
    IF i >= parts THEN result
    ELSE LET y0 == x + span - 1
             y  == IF size - y0 < span THEN size ELSE y0
         IN  size_splitter_loop(i + 1, parts, y + 1, span, size,
                                Append(result, FormatRange(x, y)))

\* size_splitter returning the remainder as a range of its own
size_splitter_remainder(size, part_size) ==
    IF size = 0 THEN Return(<<FormatRange(0, 0)>>)
    ELSE LET span == IF part_size <= size THEN part_size ELSE size
         IN  IF span = 0 THEN Raise("ZeroDivisionError")
             ELSE LET parts == PyMax(PyFloorDiv(size, span), 1)
                      full  == size_splitter_loop(0, parts, 0, span,
                                                  parts * span + span - 1, <<>>)
                  IN  Return(IF parts * span < size
                             THEN Append(full, FormatRange(parts * span, size - 1))
                             ELSE full)

size_splitter(size, part_size) ==
    IF size = 0 THEN Return(<<FormatRange(0, 0)>>)
    ELSE LET span == IF part_size <= size THEN part_size ELSE size
         IN  IF span = 0 THEN Raise("ZeroDivisionError")  \* size // span
             ELSE LET parts == PyMax(PyFloorDiv(size, span), 1)
                  IN  Return(size_splitter_loop(0, parts, 0, span, size - 1, <<>>))

-----------------------------------------------------------------------------
(* get_range_list *)

None == <<"None">>

RECURSIVE get_range_list_loop(_, _, _, _, _, _)
get_range_list_loop(i, seg_nums, seg_size, file_size, start, range_list) ==
    IF i >= seg_nums THEN range_list
    ELSE LET s == IF i = 0 THEN 0 ELSE start + seg_size
             e == IF i < seg_nums - 1 THEN s + seg_size - 1 ELSE file_size - 1
         IN  get_range_list_loop(i + 1, seg_nums, seg_size, file_size, s,
                                 Append(range_list, <<s, e>>))

\* the body below the file_size == 0 test (lines 1018-1031)
get_range_list_plan(file_size) ==
    IF config_segment_size = 0 THEN Raise("ZeroDivisionError")
    ELSE LET max_seg_nums == PyOr(PyFloorDiv(file_size, config_segment_size), 1)
             seg_nums     == PyMin(max_seg_nums, config_max_connections)
         IN  IF seg_nums = 0 THEN Raise("ZeroDivisionError")
             ELSE LET seg_size == PyFloorDiv(file_size, seg_nums)
                  IN  Return(get_range_list_loop(0, seg_nums, seg_size,
                                                 file_size, 0, <<>>))

\* get_range_list without the early return for an empty file
get_range_list_nosentinel(file_size) == get_range_list_plan(file_size)

\* get_range_list that ignores config.max_connections
get_range_list_nocap(file_size) ==
    IF file_size = 0 THEN Return(<<None>>)
    ELSE IF config_segment_size = 0 THEN Raise("ZeroDivisionError")
    ELSE LET seg_nums == PyOr(PyFloorDiv(file_size, config_segment_size), 1)
             seg_size == PyFloorDiv(file_size, seg_nums)
         IN  Return(get_range_list_loop(0, seg_nums, seg_size, file_size, 0, <<>>))

get_range_list(file_size) ==
    IF file_size = 0 THEN Return(<<None>>)
    ELSE get_range_list_plan(file_size)

-----------------------------------------------------------------------------
(* get_seg_size *)

\* a Python value passed as seg: a str (its characters in s) or another type
StrValue(s)   == [type |-> "str", s |-> s]
OtherValue(t) == [type |-> t, s |-> <<>>]

\* s.split(sep) for a one-character sep: cur is the part being read
RECURSIVE PySplitFrom(_, _, _, _)
PySplitFrom(s, sep, cur, acc) ==
    IF s = <<>> THEN Append(acc, cur)
    ELSE IF Head(s) = sep THEN PySplitFrom(Tail(s), sep, <<>>, Append(acc, cur))
    ELSE PySplitFrom(Tail(s), sep, Append(cur, Head(s)), acc)

PySplit(s, sep) == PySplitFrom(s, sep, <<>>, <<>>)

\* str.isspace on the characters enumerated
Whitespace == {" ", "\t", "\n", "\r"}

IsSpace(c) == c \in Whitespace

RECURSIVE LStrip(_)
LStrip(s) == IF s # <<>> /\ IsSpace(Head(s)) THEN LStrip(Tail(s)) ELSE s

RECURSIVE RStrip(_)
RStrip(s) == IF s # <<>> /\ IsSpace(s[Len(s)]) THEN RStrip(SubSeq(s, 1, Len(s) - 1))
             ELSE s

RECURSIVE DecVal(_)
DecVal(d) == IF d = <<>> THEN 0
             ELSE DecVal(SubSeq(d, 1, Len(d) - 1)) * Len(Digits) + DigitVal(d[Len(d)])

\* int(t) of a str: surrounding whitespace is stripped, one sign is allowed,
\* the rest must be one or more decimal digits; otherwise ValueError
PyInt(t) ==
    LET u      == RStrip(LStrip(t))
        signed == u # <<>> /\ Head(u) \in {"+", "-"}
        d      == IF signed THEN Tail(u) ELSE u
    IN  IF d = <<>> \/ \E i \in 1..Len(d) : d[i] \notin DigitSet
        THEN Raise("ValueError")
        ELSE Return(IF signed /\ Head(u) = "-" THEN 0 - DecVal(d) ELSE DecVal(d))

\* the body of the try block (lines 450-452)
get_seg_size_try(seg) ==
    IF seg.type # "str" THEN Raise("AttributeError")       \* seg.split
    ELSE LET parts == PySplit(seg.s, "-")
             a     == PyInt(parts[1])                       \* int(seg.split('-')[0])
         IN  IF a.kind = "raise" THEN a
             ELSE IF Len(parts) < 2 THEN Raise("IndexError")  \* seg.split('-')[1]
             ELSE LET b == PyInt(parts[2])
                  IN  IF b.kind = "raise" THEN b
                      ELSE Return(IF b.val > 0 THEN b.val - a.val + 1 ELSE 0)

\* get_seg_size without the except clause
get_seg_size_noexcept(seg) == get_seg_size_try(seg)

get_seg_size(seg) ==
    LET r == get_seg_size_try(seg)
    IN  IF r.kind = "raise" THEN Return(0)   \* except: return 0
        ELSE r

-----------------------------------------------------------------------------
(* log *)

Producers == {"a", "b"}

\* the levels enumerated for config.log_level and for the log_level argument:
\* the default of log() and one level above it
LogLevels == {1, 2}

\* text = ''; for arg in args: text += str(arg); text += sep  (lines 311-314)
RECURSIVE JoinArgs(_, _)
JoinArgs(args, sep) == IF args = <<>> THEN <<>>
                       ELSE Head(args) \o sep \o JoinArgs(Tail(args), sep)

\* text[:-1]
DropLast(t) == IF t = <<>> THEN <<>> ELSE SubSeq(t, 1, Len(t) - 1)

\* lines 311-316
LogText(args, start, sep) == start \o DropLast(JoinArgs(args, sep))

DefaultStart == <<">", ">", " ">>
DefaultEnd   == <<"\n">>
DefaultSep   == <<" ">>

\* the message producer p passes on its k-th call
Message(p, k) == <<p>> \o NatStr(k)

\* log(msg, log_level=level) called by producer p; print_ok is whether
\* print(text, end=end) returned (it raises, for instance, on a closed stdout)
log(p, level, print_ok) ==
    /\ calls["a"] + calls["b"] < MaxLogCalls
    /\ calls' = [calls EXCEPT ![p] = @ + 1]
    /\ LET text == LogText(<<Message(p, calls[p] + 1)>>, DefaultStart, DefaultSep)
       IN  IF level > config_log_level \/ ~print_ok
           THEN UNCHANGED <<config_log_entry, log_recorder_q, log_q, enqueued>>
           ELSE /\ config_log_entry' = text
                /\ log_recorder_q' = Append(log_recorder_q, text \o DefaultEnd)
                /\ log_q' = Append(log_q, text \o DefaultEnd)
                /\ enqueued' = Append(enqueued, text \o DefaultEnd)
    /\ UNCHANGED <<config_log_level, config_terminate, pc, buffer, pending, file,
                   drained, enq_at_terminate, attempt, last_write, prev_write,
                   failures, enq_at_count, drained_at_count, partial_write,
                   planVars, curlVars>>

\* a log() call by some thread
LogCall == \E p \in Producers, level \in LogLevels, print_ok \in BOOLEAN :
               log(p, level, print_ok)

\* the host sets the process-wide termination flag
SetTerminate ==
    /\ ~config_terminate
    /\ config_terminate' = TRUE
    /\ enq_at_terminate' = Len(enqueued)
    /\ UNCHANGED <<config_log_level, config_log_entry, log_recorder_q, log_q, pc,
                   buffer, pending, file, calls, enqueued, drained, attempt,
                   last_write, prev_write, failures, enq_at_count,
                   drained_at_count, partial_write, planVars, curlVars>>

-----------------------------------------------------------------------------
(* log_recorder *)

\* characters the utf-8 codec cannot encode (lone surrogates)
Unencodable == {"\\udc80"}

\* what open(..., encoding="utf-8", errors="ignore") writes for a str; the
\* file is kept as decoded text.  Message(p, k) holds no unencodable
\* character, so on the records enumerated here nothing is dropped.
RECURSIVE Encode(_)
Encode(t) == IF t = <<>> THEN <<>>
             ELSE IF Head(t) \in Unencodable THEN Encode(Tail(t))
             ELSE <<Head(t)>> \o Encode(Tail(t))

Failed == {"open_error", "write_error", "close_error"}

\* lines 770-776: the previous file is cleared
Start ==
    /\ pc = "idle"
    /\ pc' = "sleep"
    /\ buffer' = <<>>
    /\ file' = <<>>
    /\ UNCHANGED <<config_log_level, config_terminate, config_log_entry,
                   log_recorder_q, log_q, pending, histVars, planVars, curlVars>>

\* open(file, 'w') raises: the exception leaves log_recorder
StartFails ==
    /\ pc = "idle"
    /\ pc' = "crashed"
    /\ UNCHANGED <<config_log_level, config_terminate, config_log_entry,
                   log_recorder_q, log_q, buffer, pending, file, histVars, planVars, curlVars>>

\* the loop without the test of config.terminate
Wake_ignores_terminate ==
    /\ pc = "sleep"
    /\ pc' = "count"
    /\ UNCHANGED <<config_log_level, config_terminate, config_log_entry,
                   log_recorder_q, log_q, buffer, pending, file, histVars, planVars,
                   curlVars>>

\* lines 779-781: time.sleep(0.1) returns; if config.terminate: break
Wake ==
    /\ pc = "sleep"
    /\ pc' = IF config_terminate THEN "stopped" ELSE "count"
    /\ UNCHANGED <<config_log_level, config_terminate, config_log_entry,
                   log_recorder_q, log_q, buffer, pending, file, histVars, planVars, curlVars>>

\* q.qsize() with the off-by-one of range(q.qsize() + 1)
qsize_plus_one(q) == Len(q) + 1

\* q.qsize()
qsize(q) == Len(q)

\* line 784: range(q.qsize()) is evaluated once
Count ==
    /\ pc = "count"
    /\ pending' = qsize(log_recorder_q)
    /\ pc' = "drain"
    /\ enq_at_count' = Len(enqueued)
    /\ drained_at_count' = Len(drained)
    /\ UNCHANGED <<config_log_level, config_terminate, config_log_entry,
                   log_recorder_q, log_q, buffer, file, calls, enqueued, drained,
                   enq_at_terminate, attempt, last_write, prev_write, failures,
                   partial_write, planVars, curlVars>>

\* line 785: buffer += q.get()  (q.get() blocks while the queue is empty)
Get ==
    /\ pc = "drain"
    /\ pending > 0
    /\ log_recorder_q # <<>>
    /\ buffer' = buffer \o Head(log_recorder_q)
    /\ log_recorder_q' = Tail(log_recorder_q)
    /\ pending' = pending - 1
    /\ drained' = Append(drained, Head(log_recorder_q))
    /\ UNCHANGED <<config_log_level, config_terminate, config_log_entry, log_q, pc,
                   file, calls, enqueued, enq_at_terminate, attempt, last_write,
                   prev_write, failures, enq_at_count, drained_at_count,
                   partial_write, planVars, curlVars>>

\* line 788 with an empty buffer: nothing is written
SkipWrite ==
    /\ pc = "drain"
    /\ pending = 0
    /\ buffer = <<>>
    /\ pc' = "sleep"
    /\ UNCHANGED <<config_log_level, config_terminate, config_log_entry,
                   log_recorder_q, log_q, buffer, pending, file, histVars, planVars, curlVars>>

\* what one pass through lines 789-794 leaves behind: outcome is how the with
\* block ended and k is how many characters of the buffer reached the file.
\*   ok          open, f.write, buffer = '' and the close all succeed
\*   open_error  open raises: nothing is written, the assignment is not reached
\*   write_error f.write raises: the assignment is not reached; the characters
\*               flushed before the error, or by the close that the with
\*               statement still performs, are in the file
\*   close_error f.write returns (the text is in the file object's buffer),
\*               buffer = '' runs, then the flush made by the close raises
WriteResult(outcome, k) ==
    [file   |-> IF outcome = "ok" THEN file \o Encode(buffer)
                ELSE IF outcome = "open_error" THEN file
                ELSE file \o SubSeq(Encode(buffer), 1, k),
     buffer |-> IF outcome \in {"ok", "close_error"} THEN <<>> ELSE buffer]

Write(outcome, k) ==
    /\ pc = "drain"
    /\ pending = 0
    /\ buffer # <<>>
    /\ outcome \in Failed => failures < MaxFailures
    /\ outcome \in {"ok", "open_error"} => k = 0
    /\ file' = WriteResult(outcome, k).file
    /\ buffer' = WriteResult(outcome, k).buffer
    /\ pc' = "sleep"
    /\ attempt' = buffer
    /\ prev_write' = last_write
    /\ last_write' = outcome
    /\ failures' = IF outcome \in Failed THEN failures + 1 ELSE failures
    /\ partial_write' = (partial_write \/ (outcome \in Failed /\ k > 0))
    /\ UNCHANGED <<config_log_level, config_terminate, config_log_entry,
                   log_recorder_q, log_q, pending, calls, enqueued, drained,
                   enq_at_terminate, enq_at_count, drained_at_count, planVars,
                   curlVars>>

\* lines 788-794 with a non-empty buffer
WriteBuffer == \E outcome \in {"ok"} \cup Failed, k \in 0..Len(buffer) :
                   Write(outcome, k)

-----------------------------------------------------------------------------
(* set_curl_options and get_headers *)

\* a Python dict as the sequence of its <<key, value>> items
DictValue(items) == [type |-> "dict", s |-> items]

\* config.HEADERS, the default request headers
config_HEADERS == DictValue(<< <<<<"U", "A">>, <<"i", "d", "m">>>> >>)

\* custom headers a caller passes as http_headers
CustomHeaders == DictValue(<< <<<<"A">>, <<"b">>>> >>)

\* config.cookie_file_path and certifi.where()
config_cookie_file_path == <<"c", "o", "o", "k", "i", "e", "s">>
certifi_where == <<"c", "a", "c", "e", "r", "t">>

\* the url argument of get_headers
Url == <<"h", ":", "/", "/", "s">>

\* values the host gives to a text setting: empty (unset) or one text
SettingTexts(t) == {<<>>, t}
Proxy    == <<"p">>
Referer  == <<"r">>
Username == <<"n">>
Password == <<"w">>

\* truthiness of a dict or None, and `a or b` (line 77)
DictTruthy(d) == d.type = "dict" /\ d.s # <<>>
DictOr(a, b) == IF DictTruthy(a) THEN a ELSE b

\* [f'{k}:{v}' for k, v in http_headers.items()]  (line 80)
RECURSIVE FormatHeaders(_)
FormatHeaders(items) ==
    IF items = <<>> THEN <<>>
    ELSE <<Head(items)[1] \o <<":">> \o Head(items)[2]>> \o FormatHeaders(Tail(items))

\* pycurl.Curl(): the options of a fresh handle (libcurl's defaults)
CurlDefaults ==
    [HTTPHEADER |-> <<>>, PROXY |-> <<>>, REFERER |-> <<>>, AUTOREFERER |-> 0,
     COOKIEFILE |-> <<>>, USERNAME |-> <<>>, PASSWORD |-> <<>>,
     FOLLOWLOCATION |-> 0, MAXREDIRS |-> -1, NOSIGNAL |-> 0, NOPROGRESS |-> 1,
     CAINFO |-> <<>>, PROXY_CAINFO |-> <<>>, CONNECTTIMEOUT |-> 300,
     LOW_SPEED_LIMIT |-> 0, LOW_SPEED_TIME |-> 0, VERBOSE |-> 0, HEADEROPT |-> 0,
     TIMEOUT |-> 0, URL |-> <<>>, WRITEFUNCTION |-> "default",
     HEADERFUNCTION |-> "default", DEBUGFUNCTION |-> "default"]

\* c.setopt(o, opts[o]) for every option o of opts
setopt(c, opts) == [o \in DOMAIN c |-> IF o \in DOMAIN opts THEN opts[o] ELSE c[o]]

\* lines 127-130
TailOptions == [HEADEROPT |-> 0, TIMEOUT |-> 300, AUTOREFERER |-> 1]

\* lines 105-118
FixedOptions ==
    [FOLLOWLOCATION |-> 1, MAXREDIRS |-> 10, NOSIGNAL |-> 1, NOPROGRESS |-> 1,
     CAINFO |-> certifi_where, PROXY_CAINFO |-> certifi_where,
     CONNECTTIMEOUT |-> 10, LOW_SPEED_LIMIT |-> 1024, LOW_SPEED_TIME |-> 10]

\* lines 121-124
VerboseOption(level) == [VERBOSE |-> IF level >= 4 THEN 1 ELSE 0]

\* the levels enumerated for config.log_level while a request is built: below
\* the level of the line-136 message, at it, and at the tracing threshold
CurlLogLevels == {2, 3, 4}

\* log(*args, log_level=level) called from get_headers, print succeeding
log_args(args, level) ==
    LET text == LogText(args, DefaultStart, DefaultSep)
    IN  IF level > config_log_level
        THEN UNCHANGED <<config_log_entry, log_recorder_q, log_q, enqueued>>
        ELSE /\ config_log_entry' = text
             /\ log_recorder_q' = Append(log_recorder_q, text \o DefaultEnd)
             /\ log_q' = Append(log_q, text \o DefaultEnd)
             /\ enqueued' = Append(enqueued, text \o DefaultEnd)

\* what the steps of get_headers leave alone besides the handle, the position
\* and the log sink
CurlFrame ==
    UNCHANGED <<planVars, config_log_level, config_terminate, pc, buffer, pending,
                file, calls, drained, enq_at_terminate, attempt, last_write,
                prev_write, failures, enq_at_count, drained_at_count,
                partial_write, settingVars, gh_http_headers, changes>>

NoLog == UNCHANGED <<config_log_entry, log_recorder_q, log_q, enqueued>>

\* one step of set_curl_options that applies opts to the handle
Configure(from, to, opts) ==
    /\ cpc = from
    /\ cpc' = to
    /\ curl_opts' = setopt(curl_opts, opts)
    /\ curl_set' = curl_set \cup DOMAIN opts
    /\ NoLog
    /\ CurlFrame
    /\ UNCHANGED <<curl_info, curl_headers, wire, stderr_lines, gh_ret, gh_error,
                   gh_logged, headers_at_end>>

\* one step of set_curl_options that only tests a setting
Branch(from, to) ==
    /\ cpc = from
    /\ cpc' = to
    /\ NoLog
    /\ CurlFrame
    /\ UNCHANGED <<curl_opts, curl_set, curl_info, curl_headers, wire, stderr_lines,
                   gh_ret, gh_error, gh_logged, headers_at_end>>

\* lines 136-170: the first log line, curl_headers = {}, c = pycurl.Curl()
Begin ==
    /\ cpc = "idle"
    /\ cpc' = "sco_headers"
    /\ log_args(<<<<"get_headers()> getting headers for:">>, Url>>, 3)
    /\ curl_headers' = <<>>
    /\ curl_opts' = CurlDefaults
    /\ curl_set' = {}
    /\ CurlFrame
    /\ UNCHANGED <<curl_info, wire, stderr_lines, gh_ret, gh_error, gh_logged,
                   headers_at_end>>

\* lines 77-84
ScoHeaders ==
    Configure("sco_headers", "sco_proxy",
              [HTTPHEADER |-> FormatHeaders(DictOr(gh_http_headers, config_HEADERS).s)])

\* line 87
ScoProxy == Configure("sco_proxy", "sco_referer", [PROXY |-> config_proxy])

\* line 90: if config.referer_url
ScoRefererTest ==
    Branch("sco_referer", IF config_referer_url # <<>> THEN "sco_set_referer"
                          ELSE "sco_autoreferer")

\* line 91: config.referer_url is read again
ScoSetReferer ==
    Configure("sco_set_referer", "sco_cookies", [REFERER |-> config_referer_url])

\* line 93
ScoAutoReferer == Configure("sco_autoreferer", "sco_cookies", [AUTOREFERER |-> 1])

\* lines 96-97
ScoCookies ==
    IF config_use_cookies
    THEN Configure("sco_cookies", "sco_auth_user",
                   [COOKIEFILE |-> config_cookie_file_path])
    ELSE Branch("sco_cookies", "sco_auth_user")

\* line 100, left operand of or
ScoAuthUser ==
    Branch("sco_auth_user", IF config_username # <<>> THEN "sco_set_user"
                            ELSE "sco_auth_pass")

\* line 100, right operand of or
ScoAuthPass ==
    Branch("sco_auth_pass", IF config_password # <<>> THEN "sco_set_user"
                            ELSE "sco_fixed")

\* line 101: config.username is read again
ScoSetUser == Configure("sco_set_user", "sco_set_pass", [USERNAME |-> config_username])

\* line 102: config.password is read again
ScoSetPass == Configure("sco_set_pass", "sco_fixed", [PASSWORD |-> config_password])

\* lines 105-118
ScoFixed == Configure("sco_fixed", "sco_verbose", FixedOptions)

\* lines 121-124
ScoVerbose == Configure("sco_verbose", "sco_tail", VerboseOption(config_log_level))

\* lines 127-130; set_curl_options returns
ScoTail == Configure("sco_tail", "gh_setopt", TailOptions)

\* lines 176-178
GhSetopt ==
    Configure("gh_setopt", "perform_start",
              [URL |-> Url, WRITEFUNCTION |-> "write_callback",
               HEADERFUNCTION |-> "header_callback"])

\* the host changes one of the settings while a request is being built
ChangeSettings ==
    /\ changes < MaxSettingChanges
    /\ cpc \notin {"idle", "done"}
    /\ changes' = changes + 1
    /\ \/ /\ config_referer_url' \in SettingTexts(Referer) \ {config_referer_url}
          /\ UNCHANGED <<config_username, config_password>>
       \/ /\ config_username' \in SettingTexts(Username) \ {config_username}
          /\ UNCHANGED <<config_referer_url, config_password>>
       \/ /\ config_password' \in SettingTexts(Password) \ {config_password}
          /\ UNCHANGED <<config_referer_url, config_username>>
    /\ UNCHANGED <<planVars, logVars, histVars, config_proxy, config_use_cookies,
                   gh_http_headers, cpc, curl_opts, curl_set, curl_info,
                   curl_headers, wire, stderr_lines, gh_ret, gh_error, gh_logged,
                   headers_at_end>>

\* ---- c.perform() and the callbacks

\* header lines as the server sends them
StatusLine == <<"H", "T", "T", "P", " ", "2", "0", "0", "\r", "\n">>
ColonLine  == <<"X", ":", "A", ":", "b", "\r", "\n">>
LengthLine == <<"L", "e", "n", ":", " ", "5", "\r", "\n">>
BlankLine  == <<"\r", "\n">>

\* what a server answers: nothing at all, or a header block
Responses == {<<>>, <<StatusLine, ColonLine, LengthLine, BlankLine>>}

\* str.lower() on the letters that occur in the enumerated lines
UpperChars == <<"A", "H", "L", "P", "T", "X">>
LowerChars == <<"a", "h", "l", "p", "t", "x">>
LowerChar(c) == IF \E i \in 1..Len(UpperChars) : UpperChars[i] = c
                THEN LowerChars[CHOOSE i \in 1..Len(UpperChars) : UpperChars[i] = c]
                ELSE c
Lower(t) == [i \in 1..Len(t) |-> LowerChar(t[i])]

\* the index of the first c in t, 0 if there is none
FirstIndex(t, c) == IF \E i \in 1..Len(t) : t[i] = c
                    THEN CHOOSE i \in 1..Len(t) : t[i] = c /\ \A j \in 1..(i - 1) : t[j] # c
                    ELSE 0

\* t.split(c, 1) when c occurs in t
SplitOnce(t, c) == <<SubSeq(t, 1, FirstIndex(t, c) - 1),
                     SubSeq(t, FirstIndex(t, c) + 1, Len(t))>>

EmptyDict == [k \in {} |-> <<>>]

\* d[name] = value
DictSet(d, name, value) ==
    [k \in DOMAIN d \cup {name} |-> IF k = name THEN value ELSE d[k]]

\* lines 140-156: curl_headers after header_callback(header_line); decoding
\* iso-8859-1 maps every byte to its own character
header_callback(d, header_line, terminate) ==
    IF terminate THEN d
    ELSE LET header == Lower(header_line)
         IN  IF FirstIndex(header, ":") = 0 THEN d
             ELSE LET parts == SplitOnce(header, ":")
                  IN  DictSet(d, RStrip(LStrip(parts[1])), RStrip(LStrip(parts[2])))

\* the response code libcurl reads from a status line, 0 for another line
ResponseCode(line) ==
    IF Len(line) >= 8 /\ SubSeq(line, 1, 4) = <<"H", "T", "T", "P">>
    THEN DecVal(SubSeq(line, 6, 8))
    ELSE 0

\* why c.perform() raises pycurl.error, and str(e) as a sequence of words
ErrorCauses == {"body_abort", "header_abort", "resolve", "timeout"}

ErrorMessage(cause) ==
    CASE cause = "body_abort"   -> <<"(23,", "Failed", "writing", "body", "(0", "!=", "5))">>
      [] cause = "header_abort" -> <<"(23,", "Failed", "writing", "header)">>
      [] cause = "resolve"      -> <<"(6,", "Could", "not", "resolve", "host)">>
      [] cause = "timeout"      -> <<"(28,", "Operation", "timed", "out)">>

\* needle in hay
Contains(needle, hay) ==
    \E i \in 1..(Len(hay) - Len(needle) + 1) :
        SubSeq(hay, i, i + Len(needle) - 1) = needle

\* the test of line 184 reduced to 'Failed writing'
LogsError_any_write(msg) == ~Contains(<<"Failed", "writing">>, msg)

\* line 184: 'Failed writing body' not in str(e)
LogsError(msg) == ~Contains(<<"Failed", "writing", "body">>, msg)

PerformFrame ==
    /\ CurlFrame
    /\ UNCHANGED <<curl_opts, curl_set, gh_ret>>

\* c.perform() begins: the transfer is set up for the URL of the handle
PerformStart ==
    /\ cpc = "perform_start"
    /\ cpc' = "perform"
    /\ curl_info' = [curl_info EXCEPT !.EFFECTIVE_URL = curl_opts.URL]
    /\ NoLog
    /\ PerformFrame
    /\ UNCHANGED <<curl_headers, wire, stderr_lines, gh_error, gh_logged,
                   headers_at_end>>

\* libcurl delivers the next header line to HEADERFUNCTION
HeaderCallback ==
    /\ cpc = "perform"
    /\ wire # <<>>
    /\ curl_headers' = header_callback(curl_headers, Head(wire), config_terminate)
    /\ curl_info' = IF ResponseCode(Head(wire)) # 0
                    THEN [curl_info EXCEPT !.RESPONSE_CODE = ResponseCode(Head(wire))]
                    ELSE curl_info
    /\ wire' = Tail(wire)
    /\ NoLog
    /\ PerformFrame
    /\ UNCHANGED <<cpc, stderr_lines, gh_error, gh_logged, headers_at_end>>

TraceText == <<"*", " ", "t", "r", "a", "c", "e">>

\* with VERBOSE on, libcurl emits a trace line: to DEBUGFUNCTION if one is
\* installed (debug_callback, lines 161-167, passes it to log), to stderr otherwise
TraceLine ==
    /\ cpc = "perform"
    /\ curl_opts.VERBOSE = 1
    /\ Len(stderr_lines) < MaxTraceLines
    /\ IF curl_opts.DEBUGFUNCTION = "debug_callback"
       THEN /\ log_args(<<TraceText>>, 1)
            /\ UNCHANGED stderr_lines
       ELSE /\ stderr_lines' = Append(stderr_lines, TraceText)
            /\ NoLog
    /\ PerformFrame
    /\ UNCHANGED <<cpc, curl_info, curl_headers, wire, gh_error, gh_logged,
                   headers_at_end>>

\* c.perform() returns: the response had no body
PerformReturns ==
    /\ cpc = "perform"
    /\ wire = <<>>
    /\ curl_info.RESPONSE_CODE # 0
    /\ cpc' = "getinfo"
    /\ gh_error' = "none"
    /\ headers_at_end' = curl_headers
    /\ NoLog
    /\ PerformFrame
    /\ UNCHANGED <<curl_info, curl_headers, wire, stderr_lines, gh_logged>>

\* lines 181-185: c.perform() raises and the except clause runs.
\*   body_abort    write_callback returned -1 on the first body bytes
\*   header_abort  header_callback raised after it stored the line (the print
\*                 of line 156)
\*   resolve       no connection was made
\*   timeout       the transfer stalled at any point
PerformRaises(cause) ==
    /\ cpc = "perform"
    /\ cause = "body_abort" => wire = <<>> /\ curl_info.RESPONSE_CODE # 0
    /\ cause = "header_abort" => wire # <<>> /\ ~config_terminate
    /\ cause = "resolve" => curl_info.RESPONSE_CODE = 0 /\ curl_headers = EmptyDict
    /\ curl_headers' = IF cause = "header_abort"
                       THEN header_callback(curl_headers, Head(wire), FALSE)
                       ELSE curl_headers
    /\ headers_at_end' = curl_headers'
    /\ gh_error' = cause
    /\ IF LogsError(ErrorMessage(cause))
       THEN /\ log_args(<<<<"get_headers()>">>, ErrorMessage(cause)>>, 1)
            /\ gh_logged' = <<<<"get_headers()>">>, ErrorMessage(cause)>>
       ELSE /\ NoLog
            /\ UNCHANGED gh_logged
    /\ cpc' = "getinfo"
    /\ PerformFrame
    /\ UNCHANGED <<curl_info, wire, stderr_lines>>

PerformFails == \E cause \in ErrorCauses : PerformRaises(cause)

KeyStatus == <<"status_code">>
KeyEffUrl == <<"eff_url">>

\* lines 188-192
GetInfo ==
    /\ cpc = "getinfo"
    /\ cpc' = "done"
    /\ curl_headers' = DictSet(DictSet(curl_headers, KeyStatus, curl_info.RESPONSE_CODE),
                               KeyEffUrl, curl_info.EFFECTIVE_URL)
    /\ gh_ret' = Return(curl_headers')
    /\ NoLog
    /\ CurlFrame
    /\ UNCHANGED <<curl_opts, curl_set, curl_info, wire, stderr_lines, gh_error,
                   gh_logged, headers_at_end>>

CurlIdle ==
    /\ config_proxy = <<>>
    /\ config_referer_url = <<>>
    /\ config_use_cookies = FALSE
    /\ config_username = <<>>
    /\ config_password = <<>>
    /\ gh_http_headers = OtherValue("NoneType")
    /\ cpc = "idle"
    /\ curl_opts = CurlDefaults
    /\ curl_set = {}
    /\ curl_info = [RESPONSE_CODE |-> 0, EFFECTIVE_URL |-> <<>>]
    /\ curl_headers = EmptyDict
    /\ wire = <<>>
    /\ stderr_lines = <<>>
    /\ gh_ret = Pending
    /\ gh_error = "pending"
    /\ gh_logged = <<>>
    /\ headers_at_end = EmptyDict
    /\ changes = 0

-----------------------------------------------------------------------------
(* Specification of the log pipeline *)

OldLog == <<"o", "l", "d", "\n">>

PlanIdle ==
    /\ sp_size = 0 /\ sp_part_size = 0 /\ sp_ret = Pending
    /\ rl_file_size = 0 /\ config_segment_size = 0 /\ config_max_connections = 0
    /\ rl_ret = Pending
    /\ gs_seg = OtherValue("NoneType") /\ gs_ret = Pending

LogIdle ==
    /\ config_log_level = 1
    /\ config_terminate = FALSE
    /\ config_log_entry = <<>>
    /\ log_recorder_q = <<>>
    /\ log_q = <<>>
    /\ pc = "idle"
    /\ buffer = <<>>
    /\ pending = 0
    /\ file = <<>>
    /\ calls = [p \in Producers |-> 0]
    /\ enqueued = <<>>
    /\ drained = <<>>
    /\ enq_at_terminate = -1
    /\ attempt = <<>>
    /\ last_write = "none"
    /\ prev_write = "none"
    /\ failures = 0
    /\ enq_at_count = 0
    /\ drained_at_count = 0
    /\ partial_write = FALSE

Init ==
    /\ PlanIdle
    /\ CurlIdle
    /\ config_log_level \in LogLevels
    /\ config_terminate = FALSE
    /\ config_log_entry = <<>>
    /\ log_recorder_q = <<>>
    /\ log_q = <<>>
    /\ pc = "idle"
    /\ buffer = <<>>
    /\ pending = 0
    /\ file \in {<<>>, OldLog}
    /\ calls = [p \in Producers |-> 0]
    /\ enqueued = <<>>
    /\ drained = <<>>
    /\ enq_at_terminate = -1
    /\ attempt = <<>>
    /\ last_write = "none"
    /\ prev_write = "none"
    /\ failures = 0
    /\ enq_at_count = 0
    /\ drained_at_count = 0
    /\ partial_write = FALSE

Next ==
    \/ LogCall
    \/ SetTerminate
    \/ Start
    \/ StartFails
    \/ Wake
    \/ Count
    \/ Get
    \/ SkipWrite
    \/ WriteBuffer

Spec == Init /\ [][Next]_vars

\* the thread of log_recorder is scheduled: a step it can take is taken
FairSpec ==
    /\ Spec
    /\ WF_vars(Wake) /\ WF_vars(Count) /\ WF_vars(Get)
    /\ WF_vars(SkipWrite) /\ WF_vars(WriteBuffer)

-----------------------------------------------------------------------------
(* Specification of one get_headers call, the host changing settings *)

InitCurl ==
    /\ PlanIdle
    /\ config_log_level \in CurlLogLevels
    /\ config_terminate = FALSE
    /\ config_log_entry = <<>>
    /\ log_recorder_q = <<>>
    /\ log_q = <<>>
    /\ pc = "idle"
    /\ buffer = <<>>
    /\ pending = 0
    /\ file = <<>>
    /\ calls = [p \in Producers |-> 0]
    /\ enqueued = <<>>
    /\ drained = <<>>
    /\ enq_at_terminate = -1
    /\ attempt = <<>>
    /\ last_write = "none"
    /\ prev_write = "none"
    /\ failures = 0
    /\ enq_at_count = 0
    /\ drained_at_count = 0
    /\ partial_write = FALSE
    /\ config_proxy \in SettingTexts(Proxy)
    /\ config_referer_url \in SettingTexts(Referer)
    /\ config_use_cookies \in BOOLEAN
    /\ config_username \in SettingTexts(Username)
    /\ config_password \in SettingTexts(Password)
    /\ gh_http_headers \in {OtherValue("NoneType"), DictValue(<<>>), CustomHeaders}
    /\ cpc = "idle"
    /\ curl_opts = CurlDefaults
    /\ curl_set = {}
    /\ curl_info = [RESPONSE_CODE |-> 0, EFFECTIVE_URL |-> <<>>]
    /\ curl_headers = EmptyDict
    /\ wire \in Responses
    /\ stderr_lines = <<>>
    /\ gh_ret = Pending
    /\ gh_error = "pending"
    /\ gh_logged = <<>>
    /\ headers_at_end = EmptyDict
    /\ changes = 0

NextCurl ==
    \/ Begin
    \/ ScoHeaders
    \/ ScoProxy
    \/ ScoRefererTest
    \/ ScoSetReferer
    \/ ScoAutoReferer
    \/ ScoCookies
    \/ ScoAuthUser
    \/ ScoAuthPass
    \/ ScoSetUser
    \/ ScoSetPass
    \/ ScoFixed
    \/ ScoVerbose
    \/ ScoTail
    \/ GhSetopt
    \/ PerformStart
    \/ HeaderCallback
    \/ TraceLine
    \/ PerformReturns
    \/ PerformFails
    \/ GetInfo
    \/ ChangeSettings
    \/ SetTerminate

SpecCurl == InitCurl /\ [][NextCurl]_vars

-----------------------------------------------------------------------------
(* Specifications of the pure functions: the arguments are drawn in the      *)
(* initial state and the call is one step.                                   *)

ExampleSplits == {<<1000, 300>>}

InitSplit ==
    /\ LogIdle
    /\ CurlIdle
    /\ \E a \in (((0 - MinSize)..MaxSize) \X (0..MaxPart)) \cup ExampleSplits :
          sp_size = a[1] /\ sp_part_size = a[2]
    /\ sp_ret = Pending
    /\ rl_file_size = 0 /\ config_segment_size = 0 /\ config_max_connections = 0
    /\ rl_ret = Pending
    /\ gs_seg = OtherValue("NoneType") /\ gs_ret = Pending

Call_size_splitter ==
    /\ sp_ret = Pending
    /\ sp_ret' = size_splitter(sp_size, sp_part_size)
    /\ UNCHANGED <<sp_size, sp_part_size, rl_file_size, config_segment_size,
                   config_max_connections, rl_ret, gs_seg, gs_ret, logVars, histVars, curlVars>>

SpecSplit == InitSplit /\ [][Call_size_splitter]_vars

InitRange ==
    /\ LogIdle
    /\ CurlIdle
    /\ sp_size = 0 /\ sp_part_size = 0 /\ sp_ret = Pending
    /\ rl_file_size \in (0 - MinSize)..MaxSize
    /\ config_segment_size \in 0..MaxPart
    /\ config_max_connections \in 0..MaxConn
    /\ rl_ret = Pending
    /\ gs_seg = OtherValue("NoneType") /\ gs_ret = Pending

Call_get_range_list ==
    /\ rl_ret = Pending
    /\ rl_ret' = get_range_list(rl_file_size)
    /\ UNCHANGED <<sp_size, sp_part_size, sp_ret, rl_file_size, config_segment_size,
                   config_max_connections, gs_seg, gs_ret, logVars, histVars, curlVars>>

SpecRange == InitRange /\ [][Call_get_range_list]_vars

SegAlphabet == {"0", "1", "5", "-", "x", " ", "+"}

RECURSIVE StringsUpTo(_)
StringsUpTo(n) ==
    IF n = 0 THEN {<<>>}
    ELSE LET shorter == StringsUpTo(n - 1)
         IN  shorter \cup {Append(t, c) : t \in shorter, c \in SegAlphabet}

ExampleSegs == {<<"2", "0", "0", "-", "1", "0", "0", "0">>, FormatRange(10, 5)}

OtherTypes == {"NoneType", "int", "list", "bytes"}

InitSeg ==
    /\ LogIdle
    /\ CurlIdle
    /\ sp_size = 0 /\ sp_part_size = 0 /\ sp_ret = Pending
    /\ rl_file_size = 0 /\ config_segment_size = 0 /\ config_max_connections = 0
    /\ rl_ret = Pending
    /\ gs_seg \in {StrValue(t) : t \in StringsUpTo(MaxSegLen) \cup ExampleSegs}
                    \cup {OtherValue(t) : t \in OtherTypes}
    /\ gs_ret = Pending

Call_get_seg_size ==
    /\ gs_ret = Pending
    /\ gs_ret' = get_seg_size(gs_seg)
    /\ UNCHANGED <<sp_size, sp_part_size, sp_ret, rl_file_size, config_segment_size,
                   config_max_connections, rl_ret, gs_seg, logVars, histVars, curlVars>>

SpecSeg == InitSeg /\ [][Call_get_seg_size]_vars

\* both planners called on bad sizes and settings
InitPlan ==
    /\ LogIdle
    /\ CurlIdle
    /\ \E a \in (((0 - MinSize)..MaxSize) \X (0..MaxPart)) \cup ExampleSplits :
          sp_size = a[1] /\ sp_part_size = a[2]
    /\ sp_ret = Pending
    /\ rl_file_size \in (0 - MinSize)..MaxSize
    /\ config_segment_size \in 0..MaxPart
    /\ config_max_connections \in 0..MaxConn
    /\ rl_ret = Pending
    /\ gs_seg = OtherValue("NoneType") /\ gs_ret = Pending

SpecPlan == InitPlan /\ [][Call_size_splitter \/ Call_get_range_list]_vars

-----------------------------------------------------------------------------
(* Operators used to state the properties *)

\* the concatenation of a sequence of strings
RECURSIVE Flatten(_)
Flatten(ss) == IF ss = <<>> THEN <<>> ELSE Head(ss) \o Flatten(Tail(ss))

IsPrefix(a, b) == Len(a) <= Len(b) /\ SubSeq(b, 1, Len(a)) = a

\* t occurs in s as a block of consecutive characters
Occurs(t, s) == \E i \in 0..(Len(s) - Len(t)) : SubSeq(s, i + 1, i + Len(t)) = t

\* the producer that made record r: the character after the start prefix
ProducerOf(r) == r[Len(DefaultStart) + 1]

OfProducer(p, records) == LET Test(r) == ProducerOf(r) = p IN SelectSeq(records, Test)

RECURSIVE SumSeq(_)
SumSeq(ns) == IF ns = <<>> THEN 0 ELSE Head(ns) + SumSeq(Tail(ns))

\* start and end of a range string 'start-end' of non-negative numbers
RangeStart(r) == DecVal(SubSeq(r, 1, (CHOOSE i \in 1..Len(r) : r[i] = "-") - 1))
RangeEnd(r)   == DecVal(SubSeq(r, (CHOOSE i \in 1..Len(r) : r[i] = "-") + 1, Len(r)))

\* ranges given as <<start, end>> pairs are ordered, contiguous from 0 and
\* end at last
Covers(pairs, last) ==
    /\ Len(pairs) >= 1
    /\ pairs[1][1] = 0
    /\ \A i \in 1..Len(pairs) : pairs[i][1] <= pairs[i][2]
    /\ \A i \in 2..Len(pairs) : pairs[i][1] = pairs[i - 1][2] + 1
    /\ pairs[Len(pairs)][2] = last

PairsOf(strs) == [i \in 1..Len(strs) |-> <<RangeStart(strs[i]), RangeEnd(strs[i])>>]

Lengths(pairs) == [i \in 1..Len(pairs) |-> pairs[i][2] - pairs[i][1] + 1]

-----------------------------------------------------------------------------
(* C1..C3: the log pipeline (specification Spec) *)

\* C1: once log_recorder has observed the termination flag and stopped, the
\* log file holds every record enqueued before the flag was set, in enqueue
\* order, including those still queued or buffered when the flag is observed.
C1_AllRecordsFlushedAtStop ==
    (pc = "stopped" /\ enq_at_terminate >= 0) =>
        IsPrefix(Flatten(SubSeq(enqueued, 1, enq_at_terminate)), file)

\* C2: a failed append leaves the buffer it tried to write in memory, and
\* after a failed flush followed by a successful one every drained record
\* is in the file (or in the buffer of the cycle now running).
C2_BufferRetainedOnFailure ==
    /\ last_write \in Failed => IsPrefix(attempt, buffer)
    /\ (prev_write \in Failed /\ last_write = "ok") =>
           \A i \in 1..Len(drained) :
               Occurs(drained[i], file) \/ Occurs(drained[i], buffer)

\* C3: records are dequeued in enqueue order, every producer's records keep
\* that producer's order, and the file content is the concatenation of the
\* drained records in dequeue order (the last ones may still be in buffer).
C3_FileIsDrainedRecordsInOrder ==
    pc \notin {"idle", "crashed"} =>
        /\ IsPrefix(drained, enqueued)
        /\ \A p \in Producers :
               IsPrefix(OfProducer(p, drained), OfProducer(p, enqueued))
        /\ IsPrefix(file, Flatten(drained))

-----------------------------------------------------------------------------
(* C4, C5: size_splitter (specification SpecSplit) *)

\* C4 as stated: for all size >= 0 and part_size > 0 the ranges are ordered,
\* contiguous from 0, their inclusive lengths sum to size and the last one
\* ends at size - 1.
C4_SplitCoversSizeFromZero ==
    (sp_ret.kind # "pending" /\ sp_size >= 0 /\ sp_part_size > 0) =>
        /\ sp_ret.kind = "return"
        /\ Covers(PairsOf(sp_ret.val), sp_size - 1)
        /\ SumSeq(Lengths(PairsOf(sp_ret.val))) = sp_size

\* C4 amended: the same for all size >= 1; for size 0 the result is the one
\* sentinel range '0-0'.
C4_SplitCoversSize ==
    (sp_ret.kind # "pending" /\ sp_size >= 0 /\ sp_part_size > 0) =>
        /\ sp_ret.kind = "return"
        /\ sp_size >= 1 =>
              /\ Covers(PairsOf(sp_ret.val), sp_size - 1)
              /\ SumSeq(Lengths(PairsOf(sp_ret.val))) = sp_size
        /\ sp_size = 0 => sp_ret.val = <<FormatRange(0, 0)>>

C4_Witness ==
    /\ sp_ret.kind = "return"
    /\ sp_size >= 1 /\ sp_part_size >= 1
    /\ sp_size % sp_part_size # 0
    /\ Len(sp_ret.val) >= 3

\* C5 as stated: size_splitter(1000, 300) is (0,299), (300,599), (600,899),
\* (900,999); when size is not a multiple of part_size every range is at
\* most part_size long and the remainder is a range of its own.
C5_RemainderIsOwnRange ==
    (sp_ret.kind # "pending" /\ sp_size >= 1 /\ sp_part_size >= 1
        /\ sp_size % sp_part_size # 0) =>
        /\ sp_ret.kind = "return"
        /\ \A i \in 1..Len(sp_ret.val) :
               Lengths(PairsOf(sp_ret.val))[i] <= sp_part_size
        /\ (sp_size = 1000 /\ sp_part_size = 300) =>
               sp_ret.val = <<FormatRange(0, 299), FormatRange(300, 599),
                              FormatRange(600, 899), FormatRange(900, 999)>>

\* C5 amended: size_splitter(1000, 300) is (0,299), (300,599), (600,999);
\* when size is not a multiple of part_size and part_size < size there are
\* size // part_size ranges, all of length part_size except the last, which
\* absorbs the remainder and is part_size + size % part_size long.
C5_LastRangeAbsorbsRemainder ==
    (sp_ret.kind # "pending" /\ sp_size >= 1 /\ sp_part_size >= 1
        /\ sp_size % sp_part_size # 0 /\ sp_part_size < sp_size) =>
        /\ sp_ret.kind = "return"
        /\ Len(sp_ret.val) = sp_size \div sp_part_size
        /\ \A i \in 1..(Len(sp_ret.val) - 1) :
               Lengths(PairsOf(sp_ret.val))[i] = sp_part_size
        /\ Lengths(PairsOf(sp_ret.val))[Len(sp_ret.val)]
               = sp_part_size + (sp_size % sp_part_size)
        /\ (sp_size = 1000 /\ sp_part_size = 300) =>
               sp_ret.val = <<FormatRange(0, 299), FormatRange(300, 599),
                              FormatRange(600, 999)>>

C5_Witness ==
    /\ sp_size = 1000 /\ sp_part_size = 300
    /\ sp_ret.kind = "return"
    /\ Len(sp_ret.val) = 3

-----------------------------------------------------------------------------
(* C6, C7: get_range_list (specification SpecRange) *)

\* C6: for file_size, segment_size, max_connections >= 1 get_range_list
\* returns min(max(file_size // segment_size, 1), max_connections) ranges
\* with start <= end that cover [0, file_size - 1] without gap or overlap.
C6_RangeListCoversFile ==
    (rl_ret.kind # "pending" /\ rl_file_size >= 1 /\ config_segment_size >= 1
        /\ config_max_connections >= 1) =>
        /\ rl_ret.kind = "return"
        /\ Len(rl_ret.val) =
               PyMin(PyMax(rl_file_size \div config_segment_size, 1),
                     config_max_connections)
        /\ Covers(rl_ret.val, rl_file_size - 1)

C6_Witness ==
    /\ rl_ret.kind = "return"
    /\ rl_file_size >= 1 /\ config_segment_size >= 1 /\ config_max_connections >= 1
    /\ Len(rl_ret.val) >= 3
    /\ Len(rl_ret.val) = config_max_connections
    /\ rl_file_size % Len(rl_ret.val) # 0

\* C7: get_range_list(0) returns the one-element list [None], whatever the
\* configured segment size and maximum connections are (0 included).
C7_EmptyFileSentinel ==
    (rl_ret.kind # "pending" /\ rl_file_size = 0) => rl_ret = Return(<<None>>)

C7_Witness ==
    /\ rl_file_size = 0
    /\ config_segment_size = 0 /\ config_max_connections = 0
    /\ rl_ret = Return(<<None>>)

-----------------------------------------------------------------------------
(* C8, C9: get_seg_size (specification SpecSeg) *)

\* the characters of t between its first and last non-blank character
Core(t) ==
    LET idx == {i \in 1..Len(t) : t[i] # " "}
    IN  IF idx = {} THEN <<>>
        ELSE SubSeq(t, CHOOSE i \in idx : \A j \in idx : i <= j,
                       CHOOSE i \in idx : \A j \in idx : i >= j)

Unsigned(t) == IF Core(t) # <<>> /\ Core(t)[1] \in {"+", "-"} THEN Tail(Core(t))
               ELSE Core(t)

\* t is the text of an integer: blanks, an optional sign, digits, blanks
Numeric(t) == Unsigned(t) # <<>>
              /\ \A i \in 1..Len(Unsigned(t)) : Unsigned(t)[i] \in DigitSet

NumVal(t) == IF Core(t)[1] = "-" THEN 0 - DecVal(Unsigned(t)) ELSE DecVal(Unsigned(t))

Dashes(s) == {i \in 1..Len(s) : s[i] = "-"}

FirstDash(s) == CHOOSE i \in Dashes(s) : \A j \in Dashes(s) : i <= j

\* the text before the first '-' and the text after it up to the next '-'
StartPart(s) == SubSeq(s, 1, FirstDash(s) - 1)
EndPart(s) ==
    LET later == {i \in Dashes(s) : i > FirstDash(s)}
    IN  SubSeq(s, FirstDash(s) + 1,
               IF later = {} THEN Len(s)
               ELSE (CHOOSE i \in later : \A j \in later : i <= j) - 1)

WellFormed(seg) ==
    /\ seg.type = "str"
    /\ Cardinality(Dashes(seg.s)) = 1
    /\ Numeric(StartPart(seg.s)) /\ Numeric(EndPart(seg.s))

Malformed(seg) ==
    \/ seg.type # "str"
    \/ Dashes(seg.s) = {}
    \/ ~Numeric(StartPart(seg.s))
    \/ ~Numeric(EndPart(seg.s))

\* C8: get_seg_size never raises; on a well-formed 'start-end' it returns
\* end - start + 1 when end > 0 and 0 when end is 0; on malformed input (not
\* a string, no '-', a non-numeric part) it returns 0.
C8_SegSizeNeverRaises ==
    gs_ret.kind # "pending" =>
        /\ gs_ret.kind = "return"
        /\ WellFormed(gs_seg) =>
              gs_ret.val = IF NumVal(EndPart(gs_seg.s)) > 0
                           THEN NumVal(EndPart(gs_seg.s))
                                    - NumVal(StartPart(gs_seg.s)) + 1
                           ELSE 0
        /\ Malformed(gs_seg) => gs_ret.val = 0

C8_Witness ==
    /\ gs_seg = StrValue(<<"2", "0", "0", "-", "1", "0", "0", "0">>)
    /\ gs_ret.kind = "return" /\ gs_ret.val = 801

\* C9: the result of get_seg_size is a non-negative integer for every input.
C9_SegSizeNonNegative ==
    gs_ret.kind = "return" => gs_ret.val >= 0

-----------------------------------------------------------------------------
(* C10: the planners on bad input (specification SpecPlan) *)

\* C10: get_range_list and size_splitter raise no error and return a
\* non-empty list for any size and any configured values, bad ones included.
C10_PlanningNeverFails ==
    /\ rl_ret.kind # "pending" => (rl_ret.kind = "return" /\ rl_ret.val # <<>>)
    /\ sp_ret.kind # "pending" => (sp_ret.kind = "return" /\ sp_ret.val # <<>>)

-----------------------------------------------------------------------------
(* C15, C17, C18: the drain cycle (specifications Spec and FairSpec) *)

\* C15: a cycle of log_recorder dequeues exactly the records the queue held
\* when q.qsize() was taken: while draining, the records taken so far plus
\* the gets still to do are the records enqueued before the count, and never
\* more gets remain than the queue holds, so no q.get() blocks; records
\* enqueued meanwhile stay in the queue, in order, for the next cycle.
C15_BoundedDrainCycle ==
    /\ Len(drained) + (IF pc = "drain" THEN pending ELSE 0) = enq_at_count
    /\ pc = "drain" => pending <= Len(log_recorder_q)
    /\ drained = SubSeq(enqueued, 1, Len(drained))
    /\ log_recorder_q = SubSeq(enqueued, Len(drained) + 1, Len(enqueued))

\* a cycle has taken its records while a producer enqueued one more: that
\* record is still in the queue when the cycle goes on to write
C15_Witness ==
    /\ pc = "drain"
    /\ pending = 0
    /\ Len(drained) > drained_at_count
    /\ Len(enqueued) > enq_at_count
    /\ log_recorder_q # <<>>

\* C17: while log_recorder runs and no write failed part-way, the file
\* followed by the buffer followed by the queued records is the sequence of
\* all records enqueued, those enqueued before the start included.
C17_Conservation ==
    (pc \in {"sleep", "count", "drain"} /\ ~partial_write) =>
        file \o buffer \o Flatten(log_recorder_q) = Encode(Flatten(enqueued))

\* C18: once config.terminate is set log_recorder stops at its next wake-up
\* and does stop under fair scheduling, whatever the writes do; once stopped
\* it stays stopped and the file never changes again.
C18_StopsAndStaysStopped ==
    /\ [][(pc = "sleep" /\ config_terminate /\ pc' # pc) => pc' = "stopped"]_vars
    /\ [][pc = "stopped" => (pc' = "stopped" /\ file' = file)]_vars
    /\ (config_terminate /\ pc \in {"sleep", "count", "drain"}) ~> (pc = "stopped")

\* stopped after a failed write, with a record enqueued after the flag was
\* set and left in the queue
C18_Witness ==
    /\ pc = "stopped"
    /\ failures > 0
    /\ enq_at_terminate >= 0
    /\ Len(enqueued) > enq_at_terminate
    /\ log_recorder_q # <<>>

-----------------------------------------------------------------------------
(* C16: size_splitter and get_seg_size together (specification SpecSplit) *)

\* get_seg_size of every range string of a plan
SegSizes(ranges) == [i \in 1..Len(ranges) |-> get_seg_size(StrValue(ranges[i])).val]

\* C16: for size >= 1 and part_size >= 1 the segment sizes get_seg_size
\* reports for the ranges of size_splitter(size, part_size) add up to size,
\* and the plan is not the sentinel '0-0'.
C16_SplitSizesAddUp ==
    (sp_ret.kind # "pending" /\ sp_size >= 1 /\ sp_part_size >= 1) =>
        /\ sp_ret.kind = "return"
        /\ SumSeq(SegSizes(sp_ret.val)) = sp_size
        /\ sp_ret.val # <<FormatRange(0, 0)>>

-----------------------------------------------------------------------------
(* C11-C14: set_curl_options and get_headers (specification SpecCurl) *)

\* set_curl_options has returned on the handle
Configured == cpc \in {"gh_setopt", "perform_start", "perform", "getinfo", "done"}

\* C11: after set_curl_options returns exactly one referer policy is in
\* effect on the handle: either REFERER was set (a fixed referer, verbatim)
\* and AUTOREFERER is off, or REFERER was not set and AUTOREFERER is on.
C11_ExactlyOneRefererPolicy ==
    Configured => ("REFERER" \in curl_set) # (curl_opts.AUTOREFERER = 1)

\* C12: VERBOSE is on exactly when config.log_level >= 4, a handle with
\* VERBOSE on has debug_callback installed as its DEBUGFUNCTION, and no trace
\* line goes anywhere but the log sink.
C12_TraceGoesToLogSink ==
    /\ Configured =>
          /\ (curl_opts.VERBOSE = 1) <=> (config_log_level >= 4)
          /\ curl_opts.VERBOSE = 1 => curl_opts.DEBUGFUNCTION = "debug_callback"
    /\ stderr_lines = <<>>

\* C13: get_headers never raises; when c.perform() raised, log was called
\* (with the error) exactly when the error is not the 'Failed writing body'
\* abort; and the returned dict holds every header collected when perform
\* ended, plus status_code and eff_url as the handle reports them.
C13_GetHeadersDegradesGracefully ==
    /\ gh_ret.kind # "raise"
    /\ cpc \in {"getinfo", "done"} =>
          /\ gh_error # "pending"
          /\ (gh_logged # <<>>) <=> (gh_error \in ErrorCauses \ {"body_abort"})
          /\ gh_logged # <<>> => gh_logged[2] = ErrorMessage(gh_error)
    /\ cpc = "done" =>
          /\ gh_ret.kind = "return"
          /\ DOMAIN gh_ret.val = DOMAIN headers_at_end \cup {KeyStatus, KeyEffUrl}
          /\ \A k \in DOMAIN headers_at_end \ {KeyStatus, KeyEffUrl} :
                gh_ret.val[k] = headers_at_end[k]
          /\ gh_ret.val[KeyStatus] = curl_info.RESPONSE_CODE
          /\ gh_ret.val[KeyEffUrl] = Url

\* a transfer that timed out after some headers: logged, headers returned
C13_Witness ==
    /\ cpc = "done"
    /\ gh_error = "timeout"
    /\ gh_logged # <<>>
    /\ <<"x">> \in DOMAIN headers_at_end
    /\ gh_ret.val[<<"x">>] = <<"a", ":", "b">>
    /\ gh_ret.val[KeyStatus] = 200

\* C14: the value set_curl_options gives to REFERER and to USERNAME/PASSWORD
\* is the value its guard tested, also when the host changes the settings
\* meanwhile: REFERER is never set to the empty text and USERNAME/PASSWORD
\* are never set both empty.
C14_OptionsFromOneSnapshot ==
    Configured =>
        /\ "REFERER" \in curl_set => curl_opts.REFERER # <<>>
        /\ "USERNAME" \in curl_set =>
              ~(curl_opts.USERNAME = <<>> /\ curl_opts.PASSWORD = <<>>)

=============================================================================
